---- MODULE Spec2Model ----
(***************************************************************************)
(* A model of photo-captioner (src/src/main.rs): image discovery, the      *)
(* reconciliation of an existing caption CSV with the discovered images,   *)
(* the cursive edit session and the final CSV write.                       *)
(*                                                                         *)
(* File names are the numbers 1..MaxName: n stands for the n-th file name  *)
(* in byte order, so that < on numbers is OsStr's cmp on file names.       *)
(* Directory entry 0 is a file that is not an image (notes.txt).           *)
(***************************************************************************)
EXTENDS Integers, Sequences, FiniteSets, Bags, TLC

\* Number of distinct image file names of the gallery directory.
MaxName == 2
\* Number of data rows of an existing caption file.
MaxRows == 2

Names == 1..MaxName
DirEntries == 0..MaxName
\* The caption texts a file holds or a user types.
Captions == {"", "hi"}
GalleryDir == "gallery"

VARIABLES
  pc,            \* where main is
  opt,           \* Opt, as parsed from the command line
  image_paths,   \* main's image_paths
  captions,      \* main's captions (the table edit_captions is given)
  panic,         \* the message of the panic that ended the run, or "none"
  reported,      \* the error main printed, or "none"
  editable_captions, \* edit_captions: the Rc<RefCell<CaptionRecord>> cells
  items,         \* the SelectView's items: label and the index of the cell
  focus,         \* the SelectView's focus (0-based, as in cursive)
  layers,        \* the Cursive screen's layer stack, top last
  edit_content,  \* the EditView's content
  new_captions,  \* what edit_captions returned
  csv_written,   \* what this run wrote to the caption file
  r_pc,          \* reconciliation alone: its position
  r_existing,    \* reconciliation alone: the table read from the file
  r_images,      \* reconciliation alone: the discovered image paths
  r_fs,          \* reconciliation alone: the file system's canonical names
  r_first,       \* reconciliation alone: the result of the first run
  r_second       \* reconciliation alone: the result of the run on r_first

main_vars == <<pc, opt, image_paths, captions, panic, reported,
               editable_captions, items, focus, layers, edit_content,
               new_captions, csv_written>>
rec_vars == <<r_pc, r_existing, r_images, r_fs, r_first, r_second>>
vars == <<main_vars, rec_vars>>

----------------------------------------------------------------------------
(* Paths and records *)

\* PathBuf::join: a directory and a file name.
join(dir, filename) == [dir |-> dir, file |-> filename]

\* Path::file_name
file_name(path) == path.file

\* CaptionRecord::new
CaptionRecord_new(image_path, caption) ==
  [image_path |-> image_path, caption |-> caption]

\* CaptionRecord::empty_caption
empty_caption(image_path) == CaptionRecord_new(image_path, "")

\* CaptionRecord::get_filename
get_filename(record) == file_name(record.image_path)

\* CaptionRecord::get_label: format!("{}: {}", filename, caption)
get_label(record) == <<get_filename(record), ": ", record.caption>>

\* Path::canonicalize under file system fs: the inode the path resolves to,
\* or 0 when it resolves to nothing (no such file, a broken symlink).
canonicalize(fs, path) ==
  IF path.dir = GalleryDir /\ path.file \in DOMAIN fs THEN fs[path.file] ELSE 0

----------------------------------------------------------------------------
(* Discovery *)

\* The extension of directory entry n.
Ext(n) ==
  IF n = 0 THEN "txt"
  ELSE IF n % 3 = 1 THEN "jpg"
  ELSE IF n % 3 = 2 THEN "PNG"
  ELSE "jpeg"

to_lowercase(s) == IF s = "PNG" THEN "png" ELSE s

supported_extensions == {"jpg", "jpeg", "png"}

RECURSIVE get_image_files(_)
get_image_files(listing) ==
  IF listing = <<>> THEN <<>>
  ELSE IF to_lowercase(Ext(Head(listing))) \in supported_extensions
       THEN <<join(GalleryDir, Head(listing))>> \o get_image_files(Tail(listing))
       ELSE get_image_files(Tail(listing))

RECURSIVE generate_empty_captions(_)
generate_empty_captions(paths) ==
  IF paths = <<>> THEN <<>>
  ELSE <<empty_caption(Head(paths))>> \o generate_empty_captions(Tail(paths))

----------------------------------------------------------------------------
(* The caption file *)

RECURSIVE read_caption_csv(_)
read_caption_csv(rows) ==
  IF rows = <<>> THEN <<>>
  ELSE <<CaptionRecord_new(join(GalleryDir, Head(rows).filename), Head(rows).caption)>>
       \o read_caption_csv(Tail(rows))

RECURSIVE write_caption_csv(_)
write_caption_csv(records) ==
  IF records = <<>> THEN <<>>
  ELSE <<[filename |-> file_name(Head(records).image_path),
          caption |-> Head(records).caption]>>
       \o write_caption_csv(Tail(records))

----------------------------------------------------------------------------
(* Reconciliation: main, the branch taken when the caption file exists *)

\* A find that compares file names, not canonical paths.
find_filename_only(recs, image_path, fs, i) ==
  IF \E k \in i..Len(recs) : file_name(recs[k].image_path) = file_name(image_path)
  THEN "some" ELSE "none"

\* captions.iter().find(|record| record.canonicalize().unwrap() ==
\* image_path.canonicalize().unwrap()), from record i on: lazy, so a record
\* after the first match is never canonicalized.
RECURSIVE find(_, _, _, _)
find(recs, image_path, fs, i) ==
  IF i > Len(recs) THEN "none"
  ELSE IF canonicalize(fs, recs[i].image_path) = 0 THEN "panic"
  ELSE IF canonicalize(fs, image_path) = 0 THEN "panic"
  ELSE IF canonicalize(fs, recs[i].image_path) = canonicalize(fs, image_path)
       THEN "some"
  ELSE find(recs, image_path, fs, i + 1)

\* The for loop over image_paths, collecting images_with_no_cations.
RECURSIVE images_with_no_cations(_, _, _, _)
images_with_no_cations(recs, paths, fs, acc) ==
  IF paths = <<>> THEN [ok |-> TRUE, new |-> acc]
  ELSE LET found == find(recs, Head(paths), fs, 1) IN
       IF found = "panic" THEN [ok |-> FALSE, new |-> <<>>]
       ELSE images_with_no_cations(recs, Tail(paths), fs,
              IF found = "none" THEN Append(acc, Head(paths)) ELSE acc)

\* Insert record r behind every record whose file name is not greater.
RECURSIVE insert_sorted(_, _)
insert_sorted(sorted, r) ==
  IF sorted = <<>> THEN <<r>>
  ELSE IF file_name(Head(sorted).image_path) <= file_name(r.image_path)
       THEN <<Head(sorted)>> \o insert_sorted(Tail(sorted), r)
       ELSE <<r>> \o sorted

\* captions.sort_by(file names): a stable sort.
RECURSIVE sort_by(_)
sort_by(recs) ==
  IF recs = <<>> THEN <<>>
  ELSE insert_sorted(sort_by(SubSeq(recs, 1, Len(recs) - 1)), recs[Len(recs)])

\* The whole branch: the table, or ok = FALSE when an unwrap panicked.
reconcile(existing, paths, fs) ==
  LET missing == images_with_no_cations(existing, paths, fs, <<>>) IN
  IF ~missing.ok THEN [ok |-> FALSE, table |-> <<>>]
  ELSE [ok |-> TRUE,
        table |-> sort_by(existing \o generate_empty_captions(missing.new))]

----------------------------------------------------------------------------
(* The inputs *)

SeqsUpTo(S, n) == UNION {[1..k -> S] : k \in 0..n}

\* The sequences that list every element of S once.
Perms(S) ==
  {s \in [1..Cardinality(S) -> S] : \A i, j \in 1..Cardinality(S) : s[i] = s[j] => i = j}

CsvRows == [filename : Names, caption : Captions]
CsvContents == SeqsUpTo(CsvRows, MaxRows)

\* What each image file name resolves to: 0 for nothing, else an inode.
FileSystems == [Names -> 0..MaxName]

\* A listing of the gallery directory holds every name that resolves to a
\* file; a listed name that resolves to nothing is a broken symlink.
Listed(listing) == {listing[i].file : i \in 1..Len(listing)}
ConsistentFs(fs, paths) == \A n \in Names : fs[n] # 0 => n \in Listed(paths)

----------------------------------------------------------------------------
(* Reconciliation alone: the inputs are drawn, then the branch runs on     *)
(* them, and once more on its own result (the next run of the program,     *)
(* on the file this run wrote).                                            *)

NoResult == [ok |-> FALSE, table |-> <<>>]

MainIdle ==
  /\ pc = "idle"
  /\ opt = [output_type |-> "csv", edit |-> FALSE, view_command |-> FALSE]
  /\ image_paths = <<>>
  /\ captions = <<>>
  /\ panic = "none"
  /\ reported = "none"
  /\ editable_captions = <<>>
  /\ items = <<>>
  /\ focus = 0
  /\ layers = <<>>
  /\ edit_content = ""
  /\ new_captions = <<>>
  /\ csv_written = [written |-> FALSE, rows |-> <<>>]

InitReconcile ==
  /\ MainIdle
  /\ r_pc = "read"
  /\ r_existing \in {read_caption_csv(rows) : rows \in CsvContents}
  /\ r_fs \in FileSystems
  /\ r_images \in UNION {{get_image_files(l) : l \in Perms(D)} : D \in SUBSET Names}
  /\ ConsistentFs(r_fs, r_images)
  /\ r_first = NoResult
  /\ r_second = NoResult

ReconcileFirst ==
  /\ r_pc = "read"
  /\ r_first' = reconcile(r_existing, r_images, r_fs)
  /\ r_pc' = "first"
  /\ UNCHANGED <<main_vars, r_existing, r_images, r_fs, r_second>>

ReconcileSecond ==
  /\ r_pc = "first"
  /\ r_first.ok
  /\ r_second' = reconcile(r_first.table, r_images, r_fs)
  /\ r_pc' = "second"
  /\ UNCHANGED <<main_vars, r_existing, r_images, r_fs, r_first>>

NextReconcile == ReconcileFirst \/ ReconcileSecond

SpecReconcile == InitReconcile /\ [][NextReconcile]_vars

----------------------------------------------------------------------------
(* The cursive views edit_captions and submit_callback use *)

\* A selection that always is the first item.
selection_first(sv) == IF sv.items = <<>> THEN 0 ELSE sv.items[1].value

\* SelectView::selection: the value of the focused item; 0 when there is none.
selection(sv) == IF sv.items = <<>> THEN 0 ELSE sv.items[sv.focus + 1].value

\* SelectView::selected_id
selected_id(sv) == sv.focus

\* SelectView::remove_item(id): the focus steps back when it was at or
\* behind the removed item.
remove_item(sv, id) ==
  [items |-> SubSeq(sv.items, 1, id) \o SubSeq(sv.items, id + 2, Len(sv.items)),
   focus |-> IF sv.focus >= id /\ sv.focus > 0 THEN sv.focus - 1 ELSE sv.focus]

\* An insert that appends the item.
insert_item_at_end(sv, index, label, value) ==
  [items |-> Append(sv.items, [label |-> label, value |-> value]),
   focus |-> sv.focus]

\* SelectView::insert_item(index, label, value)
insert_item(sv, index, label, value) ==
  [items |-> SubSeq(sv.items, 1, index)
               \o <<[label |-> label, value |-> value]>>
               \o SubSeq(sv.items, index + 1, Len(sv.items)),
   focus |-> sv.focus]

\* SelectView::set_selection(i): capped to the last item.
set_selection(sv, i) ==
  [items |-> sv.items,
   focus |-> IF sv.items = <<>> THEN 0
             ELSE IF i < Len(sv.items) - 1 THEN i ELSE Len(sv.items) - 1]

\* Cursive::add_layer
add_layer(stack, layer) == Append(stack, layer)

\* A pop that leaves the dialog on the screen.
pop_layer_nothing(stack) == stack

\* Cursive::pop_layer
pop_layer(stack) == IF stack = <<>> THEN stack ELSE SubSeq(stack, 1, Len(stack) - 1)

\* The layer that receives the events.
top_layer(stack) == IF stack = <<>> THEN "none" ELSE stack[Len(stack)]

----------------------------------------------------------------------------
(* main *)

Opts == [output_type : {"csv", "xml"}, edit : BOOLEAN, view_command : BOOLEAN]

NoWrite == [written |-> FALSE, rows |-> <<>>]

ReconcileIdle ==
  /\ r_pc = "idle"
  /\ r_existing = <<>>
  /\ r_images = <<>>
  /\ r_fs = [n \in Names |-> 0]
  /\ r_first = NoResult
  /\ r_second = NoResult

Init ==
  /\ pc = "start"
  /\ opt \in Opts
  /\ image_paths = <<>>
  /\ captions = <<>>
  /\ panic = "none"
  /\ reported = "none"
  /\ editable_captions = <<>>
  /\ items = <<>>
  /\ focus = 0
  /\ layers = <<>>
  /\ edit_content = ""
  /\ new_captions = <<>>
  /\ csv_written = NoWrite
  /\ ReconcileIdle

\* A match that takes the csv arm for every output type.
always_csv(output_type) == TRUE

\* match output_type.as_str() { "csv" => ..., _ => ... }
is_csv(output_type) == output_type = "csv"

\* let image_paths = get_image_files(&gallery_dir).expect(...)
GetImageFiles ==
  /\ pc = "start"
  /\ \E D \in SUBSET DirEntries : \E listing \in Perms(D) :
       image_paths' = get_image_files(listing)
  /\ pc' = "images"
  /\ UNCHANGED <<opt, captions, panic, reported, editable_captions, items, focus,
                 layers, edit_content, new_captions, csv_written, rec_vars>>

\* The same line when the directory cannot be read.
GetImageFilesFails ==
  /\ pc = "start"
  /\ panic' = "Error: unable to read image files from gallery directory"
  /\ pc' = "panicked"
  /\ UNCHANGED <<opt, image_paths, captions, reported, editable_captions, items,
                 focus, layers, edit_content, new_captions, csv_written, rec_vars>>

\* _ => println!("Error: unsupported output type {}", output_type)
UnsupportedOutputType ==
  /\ pc = "images"
  /\ ~is_csv(opt.output_type)
  /\ reported' = "Error: unsupported output type"
  /\ pc' = "done"
  /\ UNCHANGED <<opt, image_paths, captions, panic, editable_captions, items,
                 focus, layers, edit_content, new_captions, csv_written, rec_vars>>

\* csv_path.exists(): the file is read and reconciled with the images.
ReadAndReconcile ==
  /\ pc = "images"
  /\ is_csv(opt.output_type)
  /\ \E rows \in CsvContents : \E fs \in FileSystems :
       /\ ConsistentFs(fs, image_paths)
       /\ LET merged == reconcile(read_caption_csv(rows), image_paths, fs) IN
          IF merged.ok
          THEN /\ captions' = merged.table
               /\ pc' = "captions"
               /\ panic' = panic
          ELSE /\ captions' = captions
               /\ pc' = "panicked"
               /\ panic' = "called Result::unwrap() on an Err value"
  /\ image_paths' = <<>>
  /\ UNCHANGED <<opt, reported, editable_captions, items, focus, layers,
                 edit_content, new_captions, csv_written, rec_vars>>

\* read_caption_csv(...).expect("unable to read captions csv")
ReadCaptionCsvFails ==
  /\ pc = "images"
  /\ is_csv(opt.output_type)
  /\ panic' = "unable to read captions csv"
  /\ pc' = "panicked"
  /\ UNCHANGED <<opt, image_paths, captions, reported, editable_captions, items,
                 focus, layers, edit_content, new_captions, csv_written, rec_vars>>

\* else { generate_empty_captions(&image_paths) }
GenerateNew ==
  /\ pc = "images"
  /\ is_csv(opt.output_type)
  /\ captions' = generate_empty_captions(image_paths)
  /\ pc' = "captions"
  /\ UNCHANGED <<opt, image_paths, panic, reported, editable_captions, items,
                 focus, layers, edit_content, new_captions, csv_written, rec_vars>>

----------------------------------------------------------------------------
(* The edit session *)

\* The items edit_captions adds to the SelectView, one per cell.
select_items(cells) ==
  [i \in 1..Len(cells) |-> [label |-> get_label(cells[i]), value |-> i]]

\* edit_captions up to siv.run(): without --edit the table is returned as is.
edit_captions ==
  /\ pc = "captions"
  /\ IF opt.edit = FALSE
     THEN /\ new_captions' = captions
          /\ pc' = "returned"
          /\ UNCHANGED <<editable_captions, items, focus, layers>>
     ELSE /\ editable_captions' = captions
          /\ items' = select_items(captions)
          /\ focus' = 0
          /\ layers' = add_layer(<<>>, "select_image")
          /\ pc' = "run"
          /\ UNCHANGED new_captions
  /\ UNCHANGED <<opt, image_paths, captions, panic, reported, edit_content,
                 csv_written, rec_vars>>

Listing == pc = "run" /\ top_layer(layers) = "select_image"
Editing == pc = "run" /\ top_layer(layers) = "edit_caption"

\* The select view's on_submit for item i: edit_caption. The viewer is run
\* when a view command is given; launched is whether it could be started.
edit_caption(i, launched) ==
  /\ Listing
  /\ i \in 0..(Len(items) - 1)
  /\ focus' = i
  /\ IF opt.view_command /\ ~launched
     THEN /\ panic' = "unable to launch image editor"
          /\ pc' = "panicked"
          /\ UNCHANGED <<edit_content, layers>>
     ELSE /\ edit_content' = editable_captions[items[i + 1].value].caption
          /\ layers' = add_layer(layers, "edit_caption")
          /\ UNCHANGED <<panic, pc>>
  /\ UNCHANGED <<opt, image_paths, captions, reported, editable_captions, items,
                 new_captions, csv_written, rec_vars>>

\* The user types in the EditView.
type_text(text) ==
  /\ Editing
  /\ text # edit_content
  /\ edit_content' = text
  /\ UNCHANGED <<pc, opt, image_paths, captions, panic, reported,
                 editable_captions, items, focus, layers, new_captions,
                 csv_written, rec_vars>>

\* The Ok button, or Enter in the EditView.
submit_callback ==
  /\ Editing
  /\ LET sv == [items |-> items, focus |-> focus]
         new_caption_text == edit_content
         record == selection(sv)
         id == selected_id(sv)
         cells == [editable_captions EXCEPT ![record].caption = new_caption_text]
         removed == remove_item(sv, id)
         inserted == insert_item(removed, id, get_label(cells[record]), record)
         selected == set_selection(inserted, id)
     IN /\ editable_captions' = cells
        /\ items' = selected.items
        /\ focus' = selected.focus
  /\ layers' = pop_layer(layers)
  /\ UNCHANGED <<pc, opt, image_paths, captions, panic, reported, edit_content,
                 new_captions, csv_written, rec_vars>>

\* The Cancel button.
cancel ==
  /\ Editing
  /\ layers' = pop_layer(layers)
  /\ UNCHANGED <<pc, opt, image_paths, captions, panic, reported,
                 editable_captions, items, focus, edit_content, new_captions,
                 csv_written, rec_vars>>

\* The list dialog's Ok button: s.quit()
quit ==
  /\ Listing
  /\ pc' = "stopped"
  /\ UNCHANGED <<opt, image_paths, captions, panic, reported, editable_captions,
                 items, focus, layers, edit_content, new_captions, csv_written,
                 rec_vars>>

\* edit_captions after siv.run(): the cells are cloned into new_captions.
return_captions ==
  /\ pc = "stopped"
  /\ new_captions' = editable_captions
  /\ pc' = "returned"
  /\ UNCHANGED <<opt, image_paths, captions, panic, reported, editable_captions,
                 items, focus, layers, edit_content, csv_written, rec_vars>>

\* captions = edit_captions(...); write_caption_csv(&captions, ...)
WriteCaptionCsv ==
  /\ pc = "returned"
  /\ captions' = new_captions
  /\ csv_written' = [written |-> TRUE, rows |-> write_caption_csv(new_captions)]
  /\ pc' = "done"
  /\ UNCHANGED <<opt, image_paths, panic, reported, editable_captions, items,
                 focus, layers, edit_content, new_captions, rec_vars>>

\* write_caption_csv(...).expect(...) when the file cannot be created.
WriteCaptionCsvFails ==
  /\ pc = "returned"
  /\ captions' = new_captions
  /\ panic' = "unable to write captions to csv"
  /\ pc' = "panicked"
  /\ UNCHANGED <<opt, image_paths, reported, editable_captions, items, focus,
                 layers, edit_content, new_captions, csv_written, rec_vars>>

Next ==
  \/ GetImageFiles
  \/ GetImageFilesFails
  \/ UnsupportedOutputType
  \/ ReadAndReconcile
  \/ ReadCaptionCsvFails
  \/ GenerateNew
  \/ edit_captions
  \/ \E i \in 0..(MaxName + MaxRows) : \E launched \in BOOLEAN : edit_caption(i, launched)
  \/ \E text \in Captions : type_text(text)
  \/ submit_callback
  \/ cancel
  \/ quit
  \/ return_captions
  \/ WriteCaptionCsv
  \/ WriteCaptionCsvFails

Spec == Init /\ [][Next]_vars

----------------------------------------------------------------------------
(* Claims about reconciliation *)

BagOfSeq(s) ==
  [x \in {s[i] : i \in DOMAIN s} |-> Cardinality({i \in DOMAIN s : s[i] = x})]

\* A discovered image matches an existing record when both canonicalize to
\* the same file.
Matches(existing, fs, image_path) ==
  \E i \in DOMAIN existing :
    /\ canonicalize(fs, existing[i].image_path) # 0
    /\ canonicalize(fs, existing[i].image_path) = canonicalize(fs, image_path)

Unmatched(existing, fs, paths) ==
  {paths[i] : i \in {k \in DOMAIN paths : ~Matches(existing, fs, paths[k])}}

ReconcileDone == r_pc \in {"first", "second"} /\ r_first.ok

C4_FilenamesUnique ==
  ReconcileDone =>
    \A i, j \in DOMAIN r_first.table :
      file_name(r_first.table[i].image_path) = file_name(r_first.table[j].image_path)
        => i = j

\* C5: reconciling a reconciled table against the same images again yields
\* that very table.
C5_Idempotent == r_pc = "second" => r_second = r_first

\* C7: a path that cannot be canonicalized does not abort the merge: the
\* table is still produced.
C7_CanonicalizeFailureRecovered == r_pc \in {"first", "second"} => r_first.ok

\* Where the second reconciliation yields a table, it is the first one's.
IdempotentWhereDefined == r_pc = "second" /\ r_second.ok => r_second = r_first

----------------------------------------------------------------------------
(* Claims about main and the edit session *)

SessionOn == pc \in {"run", "stopped"}

SamePaths(a, b) ==
  /\ Len(a) = Len(b)
  /\ \A i \in DOMAIN a : a[i].image_path = b[i].image_path

\* A step changes no cell but the focused one, and that one only while it
\* is edited, to its old record with the edited text as the caption.
OnlySelectedCaptionChanges ==
  \A i \in DOMAIN editable_captions :
    (SessionOn /\ editable_captions'[i] # editable_captions[i]) =>
      /\ Editing
      /\ i = focus + 1
      /\ editable_captions'[i] =
           [image_path |-> editable_captions[i].image_path, caption |-> edit_content]

\* C1: with --edit, the cells of the session and the table returned have
\* the number, the image paths and the order of the table passed in, and a
\* step changes the caption of the selected record only.
C1_EditKeepsRecords ==
  /\ [](opt.edit =>
          /\ (SessionOn => SamePaths(editable_captions, captions))
          /\ (pc = "returned" => SamePaths(new_captions, captions)))
  /\ [][OnlySelectedCaptionChanges]_vars

\* C1's case: a session over two records or more has ended; one caption was
\* changed and another record's was not.
C1_Witness ==
  /\ pc = "returned"
  /\ opt.edit
  /\ \E i, j \in DOMAIN captions :
       /\ new_captions[i].caption # captions[i].caption
       /\ new_captions[j] = captions[j]

Sorted(recs) ==
  \A i, j \in DOMAIN recs :
    i < j => file_name(recs[i].image_path) <= file_name(recs[j].image_path)

\* C3: the table handed to the edit session and the table written are
\* sorted ascending by file name, with or without an existing caption file.
C3_TableSorted ==
  /\ (pc \in {"captions", "run", "stopped", "returned"} => Sorted(captions))
  /\ (csv_written.written => Sorted(captions))

\* C6: with an output type other than csv the run never enters the edit
\* session and writes nothing, and it ends having reported the error.
C6_UnsupportedTypeWritesNothing ==
  opt.output_type # "csv" =>
    /\ csv_written = NoWrite
    /\ pc \in {"start", "images", "done", "panicked"}
    /\ layers = <<>>
    /\ editable_captions = <<>>
    /\ (pc = "done" => reported = "Error: unsupported output type")

\* C6's case: a run with output type xml has found images and has ended.
C6_Witness ==
  /\ opt.output_type = "xml"
  /\ pc = "done"
  /\ image_paths # <<>>
  /\ reported # "none"

\* C8: a viewer that cannot be launched does not end the session: the edit
\* field of the selected record is presented.
C8_LaunchFailureDoesNotAbort ==
  panic = "unable to launch image editor" => Editing

\* Every item of the list is the label of its own cell, at the cell's place.
LabelsCurrent ==
  /\ Len(items) = Len(editable_captions)
  /\ \A k \in DOMAIN items :
       /\ items[k].value = k
       /\ items[k].label =
            <<editable_captions[k].image_path.file, ": ", editable_captions[k].caption>>

\* A step that leaves Editing either changes nothing (cancel) or is the
\* commit: the focused record gets the edited text, its item the new label
\* at the same place; either way the same item stays selected, in Listing.
CommitStep ==
  (Editing /\ ~Editing') =>
    /\ Listing'
    /\ focus' = focus
    /\ \/ /\ editable_captions' = editable_captions
          /\ items' = items
       \/ /\ editable_captions' =
               [editable_captions EXCEPT ![focus + 1].caption = edit_content]
          /\ items' =
               [items EXCEPT ![focus + 1] =
                  [label |-> <<editable_captions[focus + 1].image_path.file, ": ",
                               edit_content>>,
                   value |-> focus + 1]]

\* C9: a commit sets the selected record's caption to the edited text,
\* replaces its label in place, keeps the selection and returns to Listing;
\* every label is always the one derived from its record.
C9_CommitRefreshesLabel ==
  /\ [](SessionOn => LabelsCurrent)
  /\ [][CommitStep]_vars

\* C9's case: back in Listing after a commit that changed the second or a
\* later record, whose label shows the new caption.
C9_Witness ==
  /\ Listing
  /\ focus >= 1
  /\ editable_captions[focus + 1].caption # captions[focus + 1].caption
  /\ items[focus + 1].label[3] = editable_captions[focus + 1].caption

SessionSteps ==
  /\ (pc = "captions" /\ pc' = "run") => Listing'
  /\ (Editing' /\ ~Editing) => (Listing /\ focus' < Len(items))
  /\ (Editing /\ ~Editing') => Listing'
  /\ (Editing /\ Editing') => (editable_captions' = editable_captions /\ items' = items)
  /\ (pc' = "stopped" /\ pc # "stopped") => Listing
  /\ (pc = "stopped") =>
       /\ UNCHANGED <<editable_captions, items, focus, layers, edit_content>>
       /\ pc' \in {"stopped", "returned"}
       /\ (pc' = "returned" => new_captions' = editable_captions)
  /\ (pc = "returned" /\ opt.edit) =>
       /\ UNCHANGED <<editable_captions, items, focus, layers, edit_content>>
       /\ (pc' = "done" =>
             /\ csv_written'.written
             /\ Len(csv_written'.rows) = Len(editable_captions)
             /\ \A k \in DOMAIN editable_captions :
                  /\ csv_written'.rows[k].filename = editable_captions[k].image_path.file
                  /\ csv_written'.rows[k].caption = editable_captions[k].caption)

\* C10: the session starts in Listing; Editing is entered from Listing only
\* and holds one edit dialog; commit and cancel lead back to Listing; the
\* session ends from Listing only, after which no event is processed and
\* the cells as they are get returned and written.
C10_SessionStateMachine ==
  /\ [](SessionOn =>
          layers \in {<<"select_image">>, <<"select_image", "edit_caption">>})
  /\ [][SessionSteps]_vars

\* C10's case: the session has ended by a quit from Listing after an edit,
\* and the edited table is the one returned.
C10_Witness ==
  /\ pc = "returned"
  /\ opt.edit
  /\ top_layer(layers) = "select_image"
  /\ new_captions = editable_captions
  /\ new_captions # captions

====
